---- MODULE Spec2Model ----
(***************************************************************************)
(* Greedy seed decoder, centroid estimator, remainder assignment, kernels  *)
(* and metrics of inference/spatial_embeddings.py; the discriminative,     *)
(* multi-scale and mask losses of models/cluster/loss.py and               *)
(* models/cluster_cnn/losses/spatial_embeddings.py; the factories of       *)
(* models/cluster_cnn/factories.py; CollateSparse of iotools/collates.py;  *)
(* the batch samplers of iotools/samplers.py.                              *)
(*                                                                         *)
(* Arrays are sequences indexed from 1; cluster labels keep the code's     *)
(* 0-based numbering and the sentinel -1.  An embedding row is a tuple of  *)
(* integer coordinates.  A kernel value exp(-n/d) is kept as the exact     *)
(* pair [n, d] of its exponent, so that every comparison the code makes    *)
(* between two probabilities, or between a probability and p_threshold,    *)
(* is decided exactly.  A centroid (a mean of rows) is kept as the pair    *)
(* [sum, cnt] of the summed rows and the number of rows.                   *)
(***************************************************************************)
EXTENDS Integers, Sequences, FiniteSets, TLC

\* ------------------------------------------------------------------ bounds
\* points given to a decoder
MaxN == 2
\* points given to find_cluster_means / cluster_remainder called on their own
MaxPoints == 3
\* embedding coordinates are 0..MaxCoord
MaxCoord == 2
\* labels given to cluster_remainder are -1..MaxLabel, to find_cluster_means
\* -2..MaxLabel
MaxLabel == 2
\* successive calls of cluster_remainder on the same array
MaxCalls == 2

\* the input values the decoders are run on
SeedValues == {-1, 0, 1, 2}
MarginValues == {1, 2}
SThresholds == {0, 2}
\* p_threshold in hundredths: 0.5 and 1.0
PThresholds == {50, 100}
Rows == {<<x>> : x \in 0..MaxCoord}

\* the 4-point scenario, in units of 0.1:
\* embeddings [[0,0],[0.1,0],[5,5],[5.1,5]], seediness [1,0.9,1,0.9], margins 0.5
ScenarioEmbeddings == << <<0, 0>>, <<1, 0>>, <<50, 50>>, <<51, 50>> >>
ScenarioSeediness == <<10, 9, 10, 9>>
ScenarioMargins == <<5, 5, 5, 5>>

VARIABLES
    fn,               \* the function that is running
    pc,               \* its position: "loop", "call", "done", "raised"
    embeddings, seediness, margins,          \* the decoder's inputs
    s_threshold, p_threshold, cluster_all,
    pred_labels, spheres, probs, seediness_copy, check_completion, c, count,
    seeds,            \* history: the index i selected by each iteration
    features, labels, \* the inputs of find_cluster_means / cluster_remainder
    labels_in,        \* history: labels as first passed in
    group_ids, cluster_means, calls,
    args,             \* the arguments of a loss / factory / collate / metric call
    locals,           \* the local variables of that call, by name
    ret               \* what the call returned, or the exception it raised

decVars == <<embeddings, seediness, margins, s_threshold, p_threshold, cluster_all,
             pred_labels, spheres, probs, seediness_copy, check_completion, c,
             count, seeds>>
cenVars == <<features, labels, labels_in, group_ids, cluster_means, calls>>
opVars == <<args, locals, ret>>
vars == <<fn, pc, decVars, cenVars, opVars>>

\* -------------------------------------------------------------- arithmetic
RECURSIVE SumTo(_, _)
SumTo(f, n) == IF n = 0 THEN 0 ELSE f[n] + SumTo(f, n - 1)

\* np.sum(np.power(x - centroid, 2), axis=1)
SqDist(x, y) == SumTo([k \in 1..Len(x) |-> (x[k] - y[k]) * (x[k] - y[k])], Len(x))

\* -ln(p) * 1000 for 0 < p < 1, p in hundredths (ln 2 = 0.693147...; no
\* n * 1000 lies between 693 * d and 693.147... * d for the d = 2 * sigma^2 used)
NegLnMilli(p) == CASE p = 50 -> 693

\* gaussian_kernel(centroid, sigma)(x) = exp(-n/d)
GaussianKernel(centroid, sigma, x) ==
    [n |-> SqDist(x, centroid), d |-> 2 * sigma * sigma]

\* p1 > p2 for two kernel values
ProbGT(p1, p2) == p1.n * p2.d < p2.n * p1.d

\* pValue > p_threshold, p_threshold in hundredths
ExceedsP(pv, pthr) ==
    IF pthr >= 100 THEN FALSE
    ELSE IF pthr <= 0 THEN TRUE
    ELSE pv.n * 1000 < NegLnMilli(pthr) * pv.d

\* ------------------------------------------------------- centroid estimator
\* sorted(np.unique(labels).astype(int))
RECURSIVE SortedSeq(_)
SortedSeq(S) ==
    IF S = {} THEN <<>>
    ELSE LET m == CHOOSE x \in S : \A y \in S : x <= y
         IN <<m>> \o SortedSeq(S \ {m})

\* features[index].mean(0) for index = (labels == lab): the summed rows and
\* the number of rows
RECURSIVE RowSum(_, _, _, _)
RowSum(feat, labs, lab, n) ==
    IF n = 0 THEN [k \in 1..Len(feat[1]) |-> 0]
    ELSE LET rest == RowSum(feat, labs, lab, n - 1)
         IN IF labs[n] = lab THEN [k \in 1..Len(feat[1]) |-> rest[k] + feat[n][k]]
            ELSE rest

\* the mask left out: the mean of all rows
MeanOfAll(feat, labs, lab) ==
    [sum |-> RowSum(feat, [j \in 1..Len(labs) |-> lab], lab, Len(feat)),
     cnt |-> Len(labs)]

MeanOf(feat, labs, lab) ==
    [sum |-> RowSum(feat, labs, lab, Len(feat)),
     cnt |-> Cardinality({j \in 1..Len(labs) : labs[j] = lab})]

\* find_cluster_means(features, labels): (group_ids, cluster_means)
FindClusterMeans(feat, labs) ==
    LET ids == SortedSeq({labs[j] : j \in 1..Len(labs)})
    IN [group_ids |-> ids,
        cluster_means |-> [r \in 1..Len(ids) |-> MeanOf(feat, labs, ids[r])]]

\* cdist(x, mean)^2 scaled by mean.cnt^2
ScaledSqDist(x, m) ==
    SumTo([k \in 1..Len(x) |-> (m.cnt * x[k] - m.sum[k]) * (m.cnt * x[k] - m.sum[k])],
          Len(x))

\* dist(x, m1) < dist(x, m2)
Nearer(x, m1, m2) ==
    ScaledSqDist(x, m1) * m2.cnt * m2.cnt < ScaledSqDist(x, m2) * m1.cnt * m1.cnt

\* np.argmin(cdist(x, means), axis=1): the first row of means at least distance,
\* counted from 0
ArgMinDist(x, means) ==
    (CHOOSE r \in 1..Len(means) :
        /\ \A q \in 1..Len(means) : ~Nearer(x, means[q], means[r])
        /\ \A q \in 1..(r - 1) : Nearer(x, means[r], means[q])) - 1

\* the mask left out: every point takes its nearest centroid's index
ClusterRemainderAll(embedding, semi) ==
    IF \/ {j \in 1..Len(semi) : semi[j] = -1} = {}
       \/ {j \in 1..Len(semi) : semi[j] # -1} = {}
    THEN semi
    ELSE LET fm == FindClusterMeans(embedding, semi)
             rest == Tail(fm.cluster_means)
         IN [j \in 1..Len(semi) |-> ArgMinDist(embedding[j], rest)]

\* 0 taken for the sentinel -1
ClusterRemainderZeroSentinel(embedding, semi) ==
    IF \/ {j \in 1..Len(semi) : semi[j] = 0} = {}
       \/ {j \in 1..Len(semi) : semi[j] # 0} = {}
    THEN semi
    ELSE LET fm == FindClusterMeans(embedding, semi)
             rest == Tail(fm.cluster_means)
         IN [j \in 1..Len(semi) |->
                IF semi[j] = 0 THEN ArgMinDist(embedding[j], rest) ELSE semi[j]]

\* cluster_remainder(embedding, semi_predictions)
ClusterRemainder(embedding, semi) ==
    IF \/ {j \in 1..Len(semi) : semi[j] = -1} = {}
       \/ {j \in 1..Len(semi) : semi[j] # -1} = {}
    THEN semi
    ELSE LET fm == FindClusterMeans(embedding, semi)
             rest == Tail(fm.cluster_means)
         IN [j \in 1..Len(semi) |->
                IF semi[j] = -1 THEN ArgMinDist(embedding[j], rest) ELSE semi[j]]

\* ------------------------------------------------------------------ decoder
N == Len(embeddings)

\* the iterations a run is followed for: one more than the number of points
MaxIter == N + 1

\* np.argsort(seediness_copy)[::-1][0]: an index of a largest entry; the order
\* of equal entries is the sort's
ArgMaxSet(s) == {i \in 1..Len(s) : \A j \in 1..Len(s) : s[j] <= s[i]}

\* f(embeddings) for f = fitfunc(centroid, sigma), the Gaussian kernel
PValues(i) == [j \in 1..N |-> GaussianKernel(embeddings[i], margins[i], embeddings[j])]

\* cluster_index = pValues > p_threshold
ClusterIndex(pv) == {j \in 1..N : ExceedsP(pv[j], p_threshold)}

\* the mask left out: the whole array is zeroed
ZeroSeedinessAll(copy, idx) == [j \in 1..Len(copy) |-> 0]

\* the zeroing left out
ZeroSeedinessSkipped(copy, idx) == copy

\* seediness_copy[cluster_index] = 0
ZeroSeediness(copy, idx) == [j \in 1..Len(copy) |-> IF j \in idx THEN 0 ELSE copy[j]]

\* the mask left out: every point is marked complete
MarkCompleteAll(chk, idx) == [j \in 1..Len(chk) |-> 1]

\* check_completion[cluster_index] = 1
MarkComplete(chk, idx) == [j \in 1..Len(chk) |-> IF j \in idx THEN 1 ELSE chk[j]]

\* the mask left out: every point takes the new label
AssignLabelsUnmasked(labs, idx, k) == [j \in 1..Len(labs) |-> k]

\* the label taken after the increment of c
AssignLabelsNext(labs, idx, k) ==
    [j \in 1..Len(labs) |-> IF j \in idx THEN k + 1 ELSE labs[j]]

\* pred_labels[cluster_index] = c
AssignLabels(labs, idx, k) == [j \in 1..Len(labs) |-> IF j \in idx THEN k ELSE labs[j]]

\* check_completion.all()
AllComplete(chk) == \A j \in 1..Len(chk) : chk[j] # 0

\* argmin taken for argmax
ArgMinLabels(cols) ==
    [j \in 1..Len(cols[1]) |->
        (CHOOSE k \in 1..Len(cols) :
            /\ \A m \in 1..Len(cols) : ~ProbGT(cols[k][j], cols[m][j])
            /\ \A m \in 1..(k - 1) : ProbGT(cols[m][j], cols[k][j])) - 1]

\* np.argmax(np.hstack(probs), axis=1): per point the first column of largest
\* probability, counted from 0
ArgMaxLabels(cols) ==
    [j \in 1..N |->
        (CHOOSE k \in 1..Len(cols) :
            /\ \A m \in 1..Len(cols) : ~ProbGT(cols[m][j], cols[k][j])
            /\ \A m \in 1..(k - 1) : ProbGT(cols[k][j], cols[m][j])) - 1]

\* the state the centroid-estimator variables keep while a decoder runs
CenIdle ==
    /\ features = <<>> /\ labels = <<>> /\ labels_in = <<>>
    /\ group_ids = <<>> /\ cluster_means = <<>> /\ calls = 0

\* the state the call variables keep while no such call runs
OpIdle == args = <<>> /\ locals = <<>> /\ ret = <<>>

\* entry of fit_predict1 / fit_predict2: lines 123-127 and 150-154
DecodeEntry ==
    /\ pc = "loop"
    /\ pred_labels = [j \in 1..N |-> -1]
    /\ spheres = <<>> /\ probs = <<>> /\ seeds = <<>>
    /\ seediness_copy = seediness
    /\ check_completion = [j \in 1..N |-> 0]
    /\ c = 0 /\ count = 0

Init ==
    /\ fn \in {"fit_predict1", "fit_predict2"}
    /\ \/ \E n \in 0..MaxN :
            /\ embeddings \in [1..n -> Rows]
            /\ seediness \in [1..n -> SeedValues]
            /\ margins \in [1..n -> MarginValues]
       \/ /\ embeddings = ScenarioEmbeddings
          /\ seediness = ScenarioSeediness
          /\ margins = ScenarioMargins
    /\ s_threshold \in SThresholds
    /\ p_threshold \in PThresholds
    /\ cluster_all \in BOOLEAN
    /\ DecodeEntry
    /\ CenIdle
    /\ OpIdle

\* one iteration of the while loop of fit_predict2 that does not break
FP2Iterate ==
    /\ fn = "fit_predict2" /\ pc = "loop"
    /\ count < N
    /\ Len(spheres) < MaxIter
    /\ \E i \in ArgMaxSet(seediness_copy) :
        /\ ~(seediness[i] < s_threshold)
        /\ LET pValues == PValues(i)
               cluster_index == ClusterIndex(pValues)
           IN /\ spheres' = Append(spheres, [centroid |-> embeddings[i], sigma |-> margins[i]])
              /\ probs' = Append(probs, pValues)
              /\ seediness_copy' = ZeroSeediness(seediness_copy, cluster_index)
              /\ count' = count + Cardinality(cluster_index)
              /\ seeds' = Append(seeds, i)
    /\ UNCHANGED <<fn, pc, embeddings, seediness, margins, s_threshold, p_threshold,
                   cluster_all, pred_labels, check_completion, c, cenVars, opVars>>

\* the loop of fit_predict2 ends (its condition fails, or the selected seed is
\* below s_threshold) and the function returns
FP2Return ==
    /\ fn = "fit_predict2" /\ pc = "loop"
    /\ \/ ~(count < N)
       \/ \E i \in ArgMaxSet(seediness_copy) : seediness[i] < s_threshold
    /\ pred_labels' = IF Len(probs) = 0 THEN pred_labels ELSE ArgMaxLabels(probs)
    /\ pc' = "done"
    /\ UNCHANGED <<fn, embeddings, seediness, margins, s_threshold, p_threshold,
                   cluster_all, spheres, probs, seediness_copy, check_completion, c,
                   count, seeds, cenVars, opVars>>

\* one iteration of the while loop of fit_predict1 that does not break
FP1Iterate ==
    /\ fn = "fit_predict1" /\ pc = "loop"
    /\ ~AllComplete(check_completion)
    /\ Len(spheres) < MaxIter
    /\ \E i \in ArgMaxSet(seediness_copy) :
        /\ ~(seediness[i] < s_threshold)
        /\ LET pValues == PValues(i)
               cluster_index == ClusterIndex(pValues)
           IN /\ spheres' = Append(spheres, [centroid |-> embeddings[i], sigma |-> margins[i]])
              /\ seediness_copy' = ZeroSeediness(seediness_copy, cluster_index)
              /\ check_completion' = MarkComplete(check_completion, cluster_index)
              /\ pred_labels' = AssignLabels(pred_labels, cluster_index, c)
              /\ c' = c + 1
              /\ seeds' = Append(seeds, i)
    /\ UNCHANGED <<fn, pc, embeddings, seediness, margins, s_threshold, p_threshold,
                   cluster_all, probs, count, cenVars, opVars>>

\* the loop of fit_predict1 ends and the function returns
FP1Return ==
    /\ fn = "fit_predict1" /\ pc = "loop"
    /\ \/ AllComplete(check_completion)
       \/ \E i \in ArgMaxSet(seediness_copy) : seediness[i] < s_threshold
    /\ pred_labels' = IF cluster_all THEN ClusterRemainder(embeddings, pred_labels)
                      ELSE pred_labels
    /\ pc' = "done"
    /\ UNCHANGED <<fn, embeddings, seediness, margins, s_threshold, p_threshold,
                   cluster_all, spheres, probs, seediness_copy, check_completion, c,
                   count, seeds, cenVars, opVars>>

Next == FP1Iterate \/ FP1Return \/ FP2Iterate \/ FP2Return

Spec == Init /\ [][Next]_vars

\* ------------------------------------------- the centroid functions, alone
\* the state the decoder variables keep while no decoder runs
DecIdle ==
    /\ embeddings = <<>> /\ seediness = <<>> /\ margins = <<>>
    /\ s_threshold = 0 /\ p_threshold = 0 /\ cluster_all = FALSE
    /\ pred_labels = <<>> /\ spheres = <<>> /\ probs = <<>>
    /\ seediness_copy = <<>> /\ check_completion = <<>>
    /\ c = 0 /\ count = 0 /\ seeds = <<>>

InitMeans ==
    /\ fn = "find_cluster_means" /\ pc = "call"
    /\ \E n \in 0..MaxPoints :
        /\ features \in [1..n -> Rows]
        /\ labels \in [1..n -> (-2)..MaxLabel]
    /\ labels_in = labels
    /\ group_ids = <<>> /\ cluster_means = <<>> /\ calls = 0
    /\ DecIdle
    /\ OpIdle

\* find_cluster_means(features, labels); np.vstack([]) raises on an empty input
CallFindClusterMeans ==
    /\ fn = "find_cluster_means" /\ pc = "call"
    /\ IF Len(features) = 0
       THEN /\ pc' = "raised"
            /\ UNCHANGED <<group_ids, cluster_means>>
       ELSE /\ pc' = "done"
            /\ group_ids' = FindClusterMeans(features, labels).group_ids
            /\ cluster_means' = FindClusterMeans(features, labels).cluster_means
    /\ calls' = calls + 1
    /\ UNCHANGED <<fn, features, labels, labels_in, decVars, opVars>>

NextMeans == CallFindClusterMeans

SpecMeans == InitMeans /\ [][NextMeans]_vars

InitRemainder ==
    /\ fn = "cluster_remainder" /\ pc = "call"
    /\ \E n \in 0..MaxPoints :
        /\ features \in [1..n -> Rows]
        /\ labels \in [1..n -> (-1)..MaxLabel]
    /\ labels_in = labels
    /\ group_ids = <<>> /\ cluster_means = <<>> /\ calls = 0
    /\ DecIdle
    /\ OpIdle

\* semi_predictions = cluster_remainder(embedding, semi_predictions): the array
\* passed in is written in place and returned
CallClusterRemainder ==
    /\ fn = "cluster_remainder" /\ pc = "call"
    /\ calls < MaxCalls
    /\ labels' = ClusterRemainder(features, labels)
    /\ calls' = calls + 1
    /\ UNCHANGED <<fn, pc, features, labels_in, group_ids, cluster_means, decVars, opVars>>

NextRemainder == CallClusterRemainder

SpecRemainder == InitRemainder /\ [][NextRemainder]_vars

\* -------------------------------------------- the discriminative loss terms
\* models/cluster/loss.py.  Lengths (coordinates, margins) are in units of
\* 0.5 and embeddings are one-dimensional, so torch.norm is the absolute
\* value; the offset 1e-8 added inside each norm is below this resolution.
\* A loss value is the exact fraction [num, den], in units of 0.25 (squared
\* lengths) or 0.5 (lengths).  Weights are in thousandths.
MaxCentroids == 3

\* kwargs.get defaults of combine, and the cfg.get defaults of __init__
CombineIntraMargin == 1
CombineInterMargin == 3
CombineWeight == 1000
CfgRegWeight == 1

IntraMarginValues == {1, 2}
InterMarginValues == {3, 4}

Abs(x) == IF x < 0 THEN -x ELSE x
\* torch.clamp(x, min=0)
Clamp0(x) == IF x < 0 THEN 0 ELSE x
Frac(n, d) == [num |-> n, den |-> d]
FracEq(a, b) == a.num * b.den = b.num * a.den
RECURSIVE GCD(_, _)
GCD(a, b) == IF b = 0 THEN a ELSE GCD(b, a % b)
\* a + b over the least common denominator
FracAdd(a, b) ==
    LET g == GCD(a.den, b.den)
    IN Frac(a.num * (b.den \div g) + b.num * (a.den \div g), (a.den \div g) * b.den)

\* kwargs.get(key, default)
Get(kwargs, key, default) == IF key \in DOMAIN kwargs THEN kwargs[key] ELSE default

\* the product of the centroids' point counts: every centroid sum/cnt is the
\* integer sum * (P / cnt) over P
RECURSIVE CntProduct(_, _)
CntProduct(means, n) == IF n = 0 THEN 1 ELSE means[n].cnt * CntProduct(means, n - 1)

\* centroid r times P
Scaled(means, r) == means[r].sum[1] * (CntProduct(means, Len(means)) \div means[r].cnt)

\* DiscriminativeLoss.find_cluster_means(features, labels)
LossClusterMeans(feat, labs) ==
    LET ids == SortedSeq({labs[j] : j \in 1..Len(labs)})
    IN [r \in 1..Len(ids) |-> MeanOf(feat, labs, ids[r])]

\* the hinge of one ordered pair of centroids, times P
PairHinge(means, margin, i, j) ==
    Clamp0(2 * margin * CntProduct(means, Len(means))
           - Abs(Scaled(means, i) - Scaled(means, j)))

\* the loops of inter_cluster_loss and the division by (n - 1) * n
InterClusterLossSum(means, margin) ==
    LET n == Len(means)
        P == CntProduct(means, n)
        row(i) == SumTo([j \in 1..n |-> IF i # j
                                        THEN PairHinge(means, margin, i, j)
                                             * PairHinge(means, margin, i, j)
                                        ELSE 0], n)
    IN Frac(SumTo([i \in 1..n |-> row(i)], n), P * P * (n - 1) * n)

\* the guard n_clusters < 2 left out
InterClusterLossUnguarded(means, margin) == InterClusterLossSum(means, margin)

\* inter_cluster_loss(cluster_means, margin)
InterClusterLoss(means, margin) ==
    IF Len(means) < 2 THEN Frac(0, 1)
    ELSE InterClusterLossSum(means, margin)

RECURSIVE FracSumTo(_, _)
FracSumTo(f, n) == IF n = 0 THEN Frac(0, 1) ELSE FracAdd(FracSumTo(f, n - 1), f[n])

\* intra_cluster_loss(features, labels, cluster_means, margin)
IntraClusterLoss(feat, labs, means, margin) ==
    LET ids == SortedSeq({labs[j] : j \in 1..Len(labs)})
        n_clusters == Len(means)
        P == CntProduct(means, n_clusters)
        hinge(i, j) == Clamp0(Abs(feat[j][1] * P - Scaled(means, i)) - margin * P)
        l(i) == Frac(SumTo([j \in 1..Len(labs) |->
                               IF labs[j] = ids[i] THEN hinge(i, j) * hinge(i, j) ELSE 0],
                           Len(labs)),
                     P * P * Cardinality({j \in 1..Len(labs) : labs[j] = ids[i]}))
        var_loss == FracSumTo([i \in 1..Len(ids) |-> l(i)], Len(ids))
    IN Frac(var_loss.num, var_loss.den * n_clusters)

\* regularization(cluster_means)
Regularization(means) ==
    LET n_clusters == Len(means)
    IN Frac(SumTo([i \in 1..n_clusters |-> Abs(Scaled(means, i))], n_clusters),
            CntProduct(means, n_clusters) * n_clusters)

\* self.loss_hyperparams as __init__ fills it from the configuration
LossHyperparams(intra_margin, inter_margin) ==
    [intra_weight |-> CombineWeight, inter_weight |-> CombineWeight,
     reg_weight |-> CfgRegWeight,
     intra_margin |-> intra_margin, inter_margin |-> inter_margin]

\* the keyword arguments combine is called with: none, or loss_hyperparams
KwargsValues ==
    {<<>>} \cup {LossHyperparams(v, d) : v \in IntraMarginValues, d \in InterMarginValues}

\* centroids given to inter_cluster_loss called on its own
CentroidValues == {[sum |-> <<x>>, cnt |-> k] : x \in 0..MaxCoord, k \in {1, 2}}

InitTerms ==
    /\ pc = "call"
    /\ \/ /\ fn = "inter_cluster_loss"
          /\ \E n \in 0..MaxCentroids, margin \in IntraMarginValues \cup InterMarginValues :
                \E means \in [1..n -> CentroidValues] :
                    args = [cluster_means |-> means, margin |-> margin]
       \/ /\ fn = "combine"
          /\ \E n \in 0..MaxPoints, kwargs \in KwargsValues :
                \E feat \in [1..n -> Rows], labs \in [1..n -> 0..MaxLabel] :
                    args = [features |-> feat, labels |-> labs, kwargs |-> kwargs]
    /\ locals = <<>> /\ ret = <<>>
    /\ DecIdle /\ CenIdle

CallInterClusterLoss ==
    /\ fn = "inter_cluster_loss" /\ pc = "call"
    /\ ret' = InterClusterLoss(args.cluster_means, args.margin)
    /\ pc' = "done"
    /\ UNCHANGED <<fn, args, locals, decVars, cenVars>>

\* combine(features, labels, **kwargs): torch.stack raises on an empty list
\* (line 53); otherwise the three terms are computed and line 179 reads the
\* names loss_var, loss_dist and loss_reg, which nothing binds
CallCombine ==
    /\ fn = "combine" /\ pc = "call"
    /\ LET delta_var == Get(args.kwargs, "intra_margin", CombineIntraMargin)
           delta_dist == Get(args.kwargs, "inter_margin", CombineInterMargin)
           hyper == [delta_var |-> delta_var, delta_dist |-> delta_dist,
                     intra_weight |-> Get(args.kwargs, "intra_weight", CombineWeight),
                     inter_weight |-> Get(args.kwargs, "inter_weight", CombineWeight),
                     reg_weight |-> Get(args.kwargs, "reg_weight", CombineWeight)]
           c_means == LossClusterMeans(args.features, args.labels)
       IN IF Len(args.features) = 0
          THEN /\ locals' = [hyper |-> hyper]
               /\ ret' = "RuntimeError"
          ELSE /\ locals' = [hyper |-> hyper, c_means |-> c_means,
                             inter_loss |-> InterClusterLoss(c_means, delta_var),
                             intra_loss |-> IntraClusterLoss(args.features, args.labels,
                                                             c_means, delta_dist),
                             reg_loss |-> Regularization(c_means)]
               /\ ret' = "NameError"
    /\ pc' = "raised"
    /\ UNCHANGED <<fn, args, decVars, cenVars>>

NextTerms == CallInterClusterLoss \/ CallCombine

SpecTerms == InitTerms /\ [][NextTerms]_vars

\* ------------------------------------------------------- the multi-scale loss
\* MultiScaleLoss of models/cluster/loss.py.  A margin is the fraction
\* [num, den] in units of 0.5.
NumStrides == 5
ReplicaCounts == {0, 1, 2}
BatchIdxValues == {<<>>, <<0>>, <<0, 1>>}

RECURSIVE Pow2(_)
Pow2(i) == IF i = 0 THEN 1 ELSE 2 * Pow2(i - 1)

\* [margin / 2**i for i in range(num_strides)], indexed from 0
MarginSchedule(margin, num_strides) ==
    [i \in 0..(num_strides - 1) |-> Frac(margin, Pow2(i))]

\* the keyword arguments forward gives compute_loss_layer for layer i
LayerKwargs(intra_margin, inter_margin, i) ==
    [delta_var |-> MarginSchedule(intra_margin, NumStrides)[i],
     delta_dist |-> MarginSchedule(inter_margin, NumStrides)[i]]

InitMultiScale ==
    /\ pc = "call"
    /\ \/ /\ fn = "MultiScaleLoss.forward"
          /\ \E g \in ReplicaCounts, v \in IntraMarginValues, d \in InterMarginValues,
                sc \in BOOLEAN :
                args = [num_gpus |-> g, intra_margin |-> v, inter_margin |-> d,
                        seg_contingent |-> sc]
       \/ /\ fn = "compute_loss_layer"
          /\ \E i \in 0..(NumStrides - 1), v \in IntraMarginValues,
                d \in InterMarginValues, b \in BatchIdxValues, sc \in BOOLEAN :
                args = [layer |-> i, intra_margin |-> v, inter_margin |-> d,
                        batch_idx |-> b, seg_contingent |-> sc,
                        kwargs |-> LayerKwargs(v, d, i)]
    /\ locals = <<>> /\ ret = <<>>
    /\ DecIdle /\ CenIdle

\* MultiScaleLoss.forward: line 380 reads i before the layer loop binds it;
\* with no replica, line 409 reads acc_seg, which only the loop binds
MultiScaleForward ==
    /\ fn = "MultiScaleLoss.forward" /\ pc = "call"
    /\ locals' = [layers_computed |-> 0]
    /\ ret' = "UnboundLocalError"
    /\ pc' = "raised"
    /\ UNCHANGED <<fn, args, decVars, cenVars>>

\* compute_loss_layer(..., batch_idx, **kwargs): with no batch index it
\* returns two empty mappings; otherwise the first batch element reaches
\* combine (directly, or through combine_multiclass), which resolves its
\* margins from kwargs and then raises at line 179
CallComputeLossLayer ==
    /\ fn = "compute_loss_layer" /\ pc = "call"
    /\ IF Len(args.batch_idx) = 0
       THEN /\ locals' = <<>>
            /\ ret' = [summed_loss |-> <<>>, averaged_acc |-> <<>>]
            /\ pc' = "done"
       ELSE /\ locals' = [delta_var |-> Get(args.kwargs, "intra_margin",
                                             Frac(CombineIntraMargin, 1)),
                          delta_dist |-> Get(args.kwargs, "inter_margin",
                                             Frac(CombineInterMargin, 1))]
            /\ ret' = "NameError"
            /\ pc' = "raised"
    /\ UNCHANGED <<fn, args, decVars, cenVars>>

NextMultiScale == MultiScaleForward \/ CallComputeLossLayer

SpecMultiScale == InitMultiScale /\ [][NextMultiScale]_vars

\* ------------------------------------------------------ the forward passes
\* DiscriminativeLoss.forward (models/cluster/loss.py) and MaskBCELoss.forward
\* (models/cluster_cnn/losses/spatial_embeddings.py).  A replica is the
\* sequence of its points [batch, slabel, clabel], in batch order as the
\* collate function delivers them.  locals.centroids collects, for every
\* centroid find_cluster_means computed, the set of points <<replica, row>> it
\* was the mean of; locals.divisors collects every number divided by.
MaxSlicePoints == 2

PointValues == [batch : {0, 1}, slabel : {0, 1}, clabel : {0, 1}]

ReplicaValues ==
    UNION {{r \in [1..n -> PointValues] :
               \A j \in 1..(n - 1) : r[j].batch <= r[j + 1].batch} : n \in 0..MaxSlicePoints}

\* batch_idx == bidx
SliceIdx(rep, bidx) == {j \in 1..Len(rep) : rep[j].batch = bidx}

\* slabels == sc, within a slice
ClassIdx(rep, idx, sc) == {j \in idx : rep[j].slabel = sc}

\* find_cluster_means over the rows idx of replica i: one centroid per group label
CentroidMembers(i, rep, idx) ==
    {{<<i, j>> : j \in {k \in idx : rep[k].clabel = cl}} : cl \in {rep[j].clabel : j \in idx}}

InitForward ==
    /\ fn \in {"DiscriminativeLoss.forward", "MaskBCELoss.forward"}
    /\ pc = "loop"
    /\ \E g \in ReplicaCounts, sc \in BOOLEAN :
          /\ fn = "MaskBCELoss.forward" => sc = FALSE
          /\ \E reps \in [1..g -> ReplicaValues] :
                args = [replicas |-> reps, seg_contingent |-> sc]
    /\ locals = [i |-> 0, todo |-> <<>>, nbatch |-> -1, loss |-> <<>>,
                 centroids |-> {}, divisors |-> {}]
    /\ ret = <<>>
    /\ DecIdle /\ CenIdle

\* for i in range(num_gpus): the next replica; nbatch and the sorted batch indices
ForwardReplica ==
    /\ pc = "loop" /\ locals.todo = <<>>
    /\ locals.i < Len(args.replicas)
    /\ LET rep == args.replicas[locals.i + 1]
           ids == SortedSeq({rep[j].batch : j \in 1..Len(rep)})
       IN locals' = [locals EXCEPT !.i = @ + 1, !.todo = ids, !.nbatch = Len(ids)]
    /\ UNCHANGED <<fn, pc, args, ret, decVars, cenVars>>

\* DiscriminativeLoss.forward, one batch element: combine over the whole batch
\* slice when segmentation-contingent, otherwise combine_multiclass, whose
\* first semantic class reaches combine; combine computes its centroids and
\* raises at line 179
DiscriminativeSlice ==
    /\ fn = "DiscriminativeLoss.forward" /\ pc = "loop" /\ locals.todo # <<>>
    /\ LET rep == args.replicas[locals.i]
           idx == SliceIdx(rep, Head(locals.todo))
           first == CHOOSE s \in {rep[j].slabel : j \in idx} :
                        \A j \in idx : s <= rep[j].slabel
           used == IF args.seg_contingent THEN idx ELSE ClassIdx(rep, idx, first)
           means == CentroidMembers(locals.i, rep, used)
       IN locals' = [locals EXCEPT !.centroids = @ \cup means]
    /\ ret' = "NameError"
    /\ pc' = "raised"
    /\ UNCHANGED <<fn, args, decVars, cenVars>>

\* MaskBCELoss.forward, one batch element: combine_multiclass computes the
\* centroids of every semantic class, divides each class's loss by its number
\* of clusters, and the batch element's entry is the sum over its classes
\* divided by their number
MaskSlice ==
    /\ fn = "MaskBCELoss.forward" /\ pc = "loop" /\ locals.todo # <<>>
    /\ LET rep == args.replicas[locals.i]
           bidx == Head(locals.todo)
           idx == SliceIdx(rep, bidx)
           classes == {rep[j].slabel : j \in idx}
           means(sc) == CentroidMembers(locals.i, rep, ClassIdx(rep, idx, sc))
       IN locals' = [locals EXCEPT
                        !.todo = Tail(@),
                        !.centroids = @ \cup UNION {means(sc) : sc \in classes},
                        !.divisors = @ \cup {Cardinality(means(sc)) : sc \in classes}
                                       \cup {Cardinality(classes)},
                        !.loss = Append(@, [replica |-> locals.i, bidx |-> bidx,
                                            classes |-> classes])]
    /\ UNCHANGED <<fn, pc, args, ret, decVars, cenVars>>

\* after the loops.  DiscriminativeLoss.forward divides by nbatch * num_gpus,
\* nbatch being that of the last replica (unbound when there is none), and
\* then reads self.num_classes, which __init__ never sets; MaskBCELoss.forward
\* divides each accumulated list by its length
ForwardReduce ==
    /\ pc = "loop" /\ locals.todo = <<>>
    /\ locals.i = Len(args.replicas)
    /\ LET num_gpus == Len(args.replicas)
       IN IF fn = "DiscriminativeLoss.forward"
          THEN /\ pc' = "raised"
               /\ IF num_gpus = 0
                  THEN ret' = "UnboundLocalError" /\ UNCHANGED locals
                  ELSE /\ locals' = [locals EXCEPT
                                        !.divisors = @ \cup {locals.nbatch * num_gpus}]
                       /\ ret' = IF locals.nbatch * num_gpus = 0
                                 THEN "ZeroDivisionError" ELSE "AttributeError"
          ELSE /\ pc' = "done"
               /\ IF Len(locals.loss) = 0
                  THEN ret' = <<>> /\ UNCHANGED locals
                  ELSE /\ locals' = [locals EXCEPT !.divisors = @ \cup {Len(locals.loss)}]
                       /\ ret' = [loss |-> [terms |-> locals.loss,
                                            divisor |-> Len(locals.loss)]]
    /\ UNCHANGED <<fn, args, decVars, cenVars>>

NextForward == ForwardReplica \/ DiscriminativeSlice \/ MaskSlice \/ ForwardReduce

SpecForward == InitForward /\ [][NextForward]_vars

\* ------------------------------------------------------------ the factories
\* models/cluster_cnn/factories.py.  An implementation is named by the
\* expression the table registers; locals.log records every call made.
BackboneDict == [uresnet |-> "uresnet.UResNet", fpn |-> "fpn.FPN"]

ClusterModelDict ==
    [single |-> "None", multi |-> "embeddings.ClusterEmbeddings",
     multi_fpn |-> "embeddings.ClusterEmbeddingsFPN",
     multi_stack |-> "embeddings.StackedEmbeddings"]

ClusteringLossDict ==
    ("single" :> "losses.single_layers.DiscriminativeLoss")
    @@ ("multi" :> "losses.multi_layers.MultiScaleLoss")
    @@ ("multi-weighted" :> "losses.multi_layers.WeightedMultiLoss")
    @@ ("multi-repel" :> "losses.multi_layers.MultiScaleLoss2")
    @@ ("multi-distance" :> "losses.multi_layers.DistanceEstimationLoss")

\* the names a factory is asked for: every registered key and some that no
\* table registers
NameValues ==
    DOMAIN BackboneDict \cup DOMAIN ClusterModelDict \cup DOMAIN ClusteringLossDict
    \cup {"", "default", "Single"}

\* an unknown name answered with a registered implementation
ConstructOrDefault(models, name) ==
    IF ~(name \in DOMAIN models)
    THEN [value |-> models[CHOOSE k \in DOMAIN models : TRUE]]
    ELSE [value |-> models[name]]

\* if not name in models: raise Exception(...); return models[name]
Construct(models, name) ==
    IF ~(name \in DOMAIN models) THEN [raised |-> "Exception"]
    ELSE [value |-> models[name]]

InitFactories ==
    /\ fn = "factories" /\ pc = "call"
    /\ args = <<>> /\ ret = <<>>
    /\ locals = [log |-> <<>>]
    /\ DecIdle /\ CenIdle

FactoryCall(f, models, name) ==
    /\ pc = "call" /\ "log" \in DOMAIN locals
    /\ Len(locals.log) < MaxCalls
    /\ fn' = f
    /\ args' = [name |-> name]
    /\ ret' = Construct(models, name)
    /\ locals' = [log |-> Append(locals.log, [fn |-> f, name |-> name,
                                              ret |-> Construct(models, name)])]
    /\ UNCHANGED <<pc, decVars, cenVars>>

BackboneConstruct ==
    \E name \in NameValues : FactoryCall("backbone_construct", BackboneDict, name)

ClusterModelConstruct ==
    \E name \in NameValues : FactoryCall("cluster_model_construct", ClusterModelDict, name)

ClusteringLossConstruct ==
    \E name \in NameValues :
        FactoryCall("clustering_loss_construct", ClusteringLossDict, name)

NextFactories == BackboneConstruct \/ ClusterModelConstruct \/ ClusteringLossConstruct

SpecFactories == InitFactories /\ [][NextFactories]_vars

\* ------------------------------------------------- the metrics of main_loop
\* inference/spatial_embeddings.py lines 222-232.  purity_efficiency is
\* imported from mlreco.utils.metrics; a purity or efficiency is k / ScoreDen
\* for k in 0..ScoreDen.  The quotient 0 / 0 raises for Python floats and is
\* nan, kept as the pair [0, 0], for numpy floats: either can be what
\* purity_efficiency returns.
ScoreDen == 2
MaxSlices == 2

SliceValues == [purity : 0..ScoreDen, efficiency : 0..ScoreDen, nclusters : {1, 2}]

\* 2 * (purity * efficiency) / (purity + efficiency)
FScore(purity, efficiency) ==
    Frac(2 * purity * efficiency, ScoreDen * (purity + efficiency))

\* output.append(row), once per true cluster of the slice
RECURSIVE AppendRows(_, _, _)
AppendRows(output, row, n) ==
    IF n = 0 THEN output ELSE AppendRows(Append(output, row), row, n - 1)

InitScores ==
    /\ fn = "main_loop" /\ pc = "loop"
    /\ \E n \in 0..MaxSlices : \E s \in [1..n -> SliceValues] : args = [slices |-> s]
    /\ locals = [k |-> 0, output |-> <<>>]
    /\ ret = <<>>
    /\ DecIdle /\ CenIdle

\* one (event, semantic class) slice: its metrics and its rows
ScoreSlice ==
    /\ fn = "main_loop" /\ pc = "loop"
    /\ locals.k < Len(args.slices)
    /\ LET s == args.slices[locals.k + 1]
           row(f) == [purity |-> s.purity, efficiency |-> s.efficiency, fscore |-> f]
       IN IF s.purity + s.efficiency = 0
          THEN \/ /\ pc' = "raised"
                  /\ ret' = "ZeroDivisionError"
                  /\ locals' = [locals EXCEPT !.k = @ + 1]
               \/ /\ locals' = [k |-> locals.k + 1,
                                output |-> AppendRows(locals.output, row(Frac(0, 0)), s.nclusters)]
                  /\ UNCHANGED <<pc, ret>>
          ELSE /\ locals' = [k |-> locals.k + 1,
                             output |-> AppendRows(locals.output,
                                                   row(FScore(s.purity, s.efficiency)),
                                                   s.nclusters)]
               /\ UNCHANGED <<pc, ret>>
    /\ UNCHANGED <<fn, args, decVars, cenVars>>

\* the loops end: output is returned as a table
ScoresReturn ==
    /\ fn = "main_loop" /\ pc = "loop"
    /\ locals.k = Len(args.slices)
    /\ ret' = locals.output
    /\ pc' = "done"
    /\ UNCHANGED <<fn, args, locals, decVars, cenVars>>

NextScores == ScoreSlice \/ ScoresReturn

SpecScores == InitScores /\ [][NextScores]_vars

\* ---------------------------------------------------------- the collation
\* CollateSparse of iotools/collates.py, for samples of one field.  A 2D
\* array is the sequence of its rows and a 1D array the sequence of its
\* entries; batch ids count from 0.
MaxBatch == 2
RowCounts == {0, 1, 2}
CoordDims == {2, 3}
DataRows == {<<7>>, <<8>>}

\* two coordinate rows of d columns
CoordRows(d) == {[k \in 1..d |-> k + v] : v \in {0, 10}}

\* the values of the field of one sample, by the kind of the field
FieldValues(kind, d) ==
    CASE kind = "tuple" ->
            UNION {{[voxels |-> v, data |-> x] :
                       v \in [1..n -> CoordRows(d)], x \in [1..n -> DataRows]} :
                   n \in RowCounts}
      [] kind = "array2" -> UNION {[1..n -> CoordRows(d)] : n \in RowCounts}
      [] kind = "array1" -> UNION {[1..n -> {7, 8}] : n \in RowCounts}
      [] kind = "other" -> {7, 8}

\* np.concatenate(list, axis=0) of the arrays f[1], ..., f[n]
RECURSIVE ConcatTo(_, _)
ConcatTo(f, n) == IF n = 0 THEN <<>> ELSE ConcatTo(f, n - 1) \o f[n]

\* the batch id put in front of every row
StampFront(rows, batch_id) == [r \in 1..Len(rows) |-> <<batch_id>> \o rows[r]]

\* concat([rows, np.full([len(rows), 1], batch_id)], axis=1)
Stamp(rows, batch_id) == [r \in 1..Len(rows) |-> Append(rows[r], batch_id)]

\* np.expand_dims(array, 1)
ExpandDims(array) == [r \in 1..Len(array) |-> <<array[r]>>]

\* enumerate(batch) counts from 0
BatchId(b) == b - 1

\* the value CollateSparse appends to result for the field
CollateField(kind, batch) ==
    LET n == Len(batch)
    IN CASE kind = "tuple" ->
               LET voxels == ConcatTo([b \in 1..n |-> Stamp(batch[b].voxels, BatchId(b))], n)
                   data == ConcatTo([b \in 1..n |-> batch[b].data], n)
               IN [r \in 1..Len(voxels) |-> voxels[r] \o data[r]]
         [] kind = "array1" ->
               ConcatTo([b \in 1..n |-> Stamp(ExpandDims(batch[b]), BatchId(b))], n)
         [] kind = "array2" ->
               ConcatTo([b \in 1..n |-> Stamp(batch[b], BatchId(b))], n)
         [] kind = "other" -> batch

InitCollate ==
    /\ fn = "CollateSparse" /\ pc = "call"
    /\ \E kind \in {"tuple", "array1", "array2", "other"}, d \in CoordDims,
          n \in 0..MaxBatch :
          \E batch \in [1..n -> FieldValues(kind, d)] :
              args = [kind |-> kind, d |-> d, batch |-> batch]
    /\ locals = <<>> /\ ret = <<>>
    /\ DecIdle /\ CenIdle

\* CollateSparse(batch): batch[0] raises on an empty batch
CallCollateSparse ==
    /\ fn = "CollateSparse" /\ pc = "call"
    /\ IF Len(args.batch) = 0
       THEN pc' = "raised" /\ ret' = "IndexError"
       ELSE pc' = "done" /\ ret' = <<CollateField(args.kind, args.batch)>>
    /\ UNCHANGED <<fn, args, locals, decVars, cenVars>>

NextCollate == CallCollateSparse

SpecCollate == InitCollate /\ [][NextCollate]_vars

\* -------------------------------------------------------------- the kernels
\* gaussian_kernel and ellipsoidal_kernel of inference/spatial_embeddings.py,
\* on two-dimensional points.  A value exp(-n/d) is the pair [n, d], so a
\* value above 1 has n < 0.  The bandwidth of ellipsoidal_kernel is one
\* number per dimension.
KernelPointCounts == {1, 2}
Points2D == {<<x, y>> : x, y \in 0..MaxCoord}
SigmaValues == {1, 2}

\* np.power(x - centroid, 2) / (2.0 * sigma**2), summed over the dimensions:
\* the numerator over the product of the denominators
ScaledDistSum(centroid, sigma, x) ==
    LET den == 2 * sigma[1] * sigma[1] * 2 * sigma[2] * sigma[2]
    IN SumTo([k \in 1..2 |-> (x[k] - centroid[k]) * (x[k] - centroid[k])
                              * (den \div (2 * sigma[k] * sigma[k]))], 2)

\* ellipsoidal_kernel(centroid, sigma)(x) = exp(-np.sum(-dists))
EllipsoidalKernel(centroid, sigma, x) ==
    [n |-> -ScaledDistSum(centroid, sigma, x),
     d |-> 2 * sigma[1] * sigma[1] * 2 * sigma[2] * sigma[2]]

InitKernels ==
    /\ pc = "call"
    /\ \E centroid \in Points2D, m \in KernelPointCounts :
          \E x \in [1..m -> Points2D] :
             \/ /\ fn = "gaussian_kernel"
                /\ \E sigma \in SigmaValues :
                      args = [centroid |-> centroid, sigma |-> sigma, x |-> x]
             \/ /\ fn = "ellipsoidal_kernel"
                /\ \E sigma \in SigmaValues \X SigmaValues :
                      args = [centroid |-> centroid, sigma |-> sigma, x |-> x]
    /\ locals = <<>> /\ ret = <<>>
    /\ DecIdle /\ CenIdle

\* gaussian_kernel(centroid, sigma)(x): one value per row of x
CallGaussianKernel ==
    /\ fn = "gaussian_kernel" /\ pc = "call"
    /\ ret' = [j \in 1..Len(args.x) |-> GaussianKernel(args.centroid, args.sigma, args.x[j])]
    /\ pc' = "done"
    /\ UNCHANGED <<fn, args, locals, decVars, cenVars>>

\* ellipsoidal_kernel(centroid, sigma)(x)
CallEllipsoidalKernel ==
    /\ fn = "ellipsoidal_kernel" /\ pc = "call"
    /\ ret' = [j \in 1..Len(args.x) |->
                  EllipsoidalKernel(args.centroid, args.sigma, args.x[j])]
    /\ pc' = "done"
    /\ UNCHANGED <<fn, args, locals, decVars, cenVars>>

NextKernels == CallGaussianKernel \/ CallEllipsoidalKernel

SpecKernels == InitKernels /\ [][NextKernels]_vars

\* ------------------------------------------------------- the constructors
\* The __init__ of the loss classes.  A configuration is the mapping
\* cfg['modules'] from the names of the sections it has to their contents;
\* weights are in thousandths, margins in units of 0.5.
SectionValues == {<<>>, [intracluster_margin |-> 2, seediness_weight |-> 2000]}

\* cfg['modules']: any of the two sections the losses read, present or not
ConfigValues ==
    UNION {[S -> SectionValues] : S \in SUBSET {"clustering_loss", "discriminative_loss"}}

MaskClasses == {"MaskBCELoss", "MaskBCELoss2", "MaskBCELossBivariate", "MaskLovaszHingeLoss"}

\* DiscriminativeLoss.__init__, lines 18-32
DiscriminativeAttrs(modules) ==
    LET cfg == modules["clustering_loss"]
    IN [num_classes |-> Get(cfg, "num_classes", 5),
        depth |-> Get(cfg, "stride", 5),
        loss_hyperparams |->
            [intra_weight |-> Get(cfg, "intra_weight", 1000),
             inter_weight |-> Get(cfg, "inter_weight", 1000),
             reg_weight |-> Get(cfg, "reg_weight", 1),
             intra_margin |-> Get(cfg, "intracluster_margin", 1),
             inter_margin |-> Get(cfg, "intercluster_margin", 3)],
        dimension |-> Get(cfg, "data_dim", 3),
        norm |-> Get(cfg, "norm", 2),
        seg_contingent |-> Get(cfg, "contingent", TRUE)]

\* MaskBCELoss.__init__, lines 18-22
MaskAttrs(modules) ==
    LET loss_config == modules["clustering_loss"]
    IN [seediness_weight |-> Get(loss_config, "seediness_weight", 1000),
        embedding_weight |-> Get(loss_config, "embedding_weight", 10000),
        smoothing_weight |-> Get(loss_config, "smoothing_weight", 1000),
        spatial_size |-> Get(loss_config, "spatial_size", 512)]

InitConstruct ==
    /\ fn \in {"DiscriminativeLoss", "MultiScaleLoss", "AllyEnemyLoss", "ClusteringLoss"}
                \cup MaskClasses
    /\ pc = "call"
    /\ \E modules \in ConfigValues : args = [modules |-> modules]
    /\ locals = <<>> /\ ret = <<>>
    /\ DecIdle /\ CenIdle

\* DiscriminativeLoss(cfg)
ConstructDiscriminativeLoss ==
    /\ fn = "DiscriminativeLoss" /\ pc = "call"
    /\ IF "clustering_loss" \in DOMAIN args.modules
       THEN pc' = "done" /\ ret' = DiscriminativeAttrs(args.modules)
       ELSE pc' = "raised" /\ ret' = "KeyError"
    /\ UNCHANGED <<fn, args, locals, decVars, cenVars>>

\* MultiScaleLoss(cfg), AllyEnemyLoss(cfg): the first statement calls the
\* parent's __init__ with no argument, and the parent's cfg has no default
ConstructMultiScaleLoss ==
    /\ fn \in {"MultiScaleLoss", "AllyEnemyLoss"} /\ pc = "call"
    /\ pc' = "raised" /\ ret' = "TypeError"
    /\ UNCHANGED <<fn, args, locals, decVars, cenVars>>

\* ClusteringLoss(cfg) of clusternet_pyramid.py: its own section, then the
\* DiscriminativeLoss it imports from mlreco.models.discriminative_loss,
\* which is left unevaluated
ConstructClusteringLoss ==
    /\ fn = "ClusteringLoss" /\ pc = "call"
    /\ IF "discriminative_loss" \in DOMAIN args.modules
       THEN /\ pc' = "done"
            /\ ret' = [cfg |-> args.modules["discriminative_loss"],
                       clustering_loss |-> "DiscriminativeLoss(cfg)"]
       ELSE pc' = "raised" /\ ret' = "KeyError"
    /\ UNCHANGED <<fn, args, locals, decVars, cenVars>>

\* MaskBCELoss(cfg) and its subclasses, which pass cfg on and leave name at
\* its default
ConstructMaskLoss ==
    /\ fn \in MaskClasses /\ pc = "call"
    /\ IF "clustering_loss" \in DOMAIN args.modules
       THEN pc' = "done" /\ ret' = MaskAttrs(args.modules)
       ELSE pc' = "raised" /\ ret' = "KeyError"
    /\ UNCHANGED <<fn, args, locals, decVars, cenVars>>

NextConstruct ==
    \/ ConstructDiscriminativeLoss
    \/ ConstructMultiScaleLoss
    \/ ConstructClusteringLoss
    \/ ConstructMaskLoss

SpecConstruct == InitConstruct /\ [][NextConstruct]_vars

\* ------------------------------------ both decoders called on the same arrays
\* np.argsort(seediness_copy)[::-1][0] is a function of the array: of the
\* largest entries the sort puts one last, here the lowest or the highest index
TieRules == {"low", "high"}

Pick(s, rule) ==
    IF rule = "low"
    THEN CHOOSE i \in ArgMaxSet(s) : \A j \in ArgMaxSet(s) : i <= j
    ELSE CHOOSE i \in ArgMaxSet(s) : \A j \in ArgMaxSet(s) : j <= i

\* three points of which the second seed's wider kernel claims the first
\* again and the third is far from both
OverlapEmbeddings == << <<0>>, <<2>>, <<5>> >>
OverlapSeediness == <<3, 2, 1>>
OverlapMargins == <<1, 2, 1>>

\* a caller holds embeddings, seediness and margins (args keeps what the
\* arrays held before the first call) and calls fit_predict1
InitPair ==
    /\ fn = "fit_predict1"
    /\ \/ \E n \in 0..MaxN :
            /\ embeddings \in [1..n -> Rows]
            /\ seediness \in [1..n -> SeedValues]
            /\ margins \in [1..n -> MarginValues]
       \/ /\ embeddings = OverlapEmbeddings
          /\ seediness = OverlapSeediness
          /\ margins = OverlapMargins
    /\ s_threshold \in SThresholds
    /\ p_threshold \in PThresholds
    /\ cluster_all \in BOOLEAN
    /\ DecodeEntry
    /\ \E rule \in TieRules :
          args = [pick |-> rule, embeddings |-> embeddings,
                  seediness |-> seediness, margins |-> margins]
    /\ locals = <<>> /\ ret = <<>>
    /\ CenIdle

PairFP1Iterate ==
    /\ FP1Iterate
    /\ seeds'[Len(seeds')] = Pick(seediness_copy, args.pick)

PairFP1Return ==
    /\ FP1Return
    /\ AllComplete(check_completion)
          \/ seediness[Pick(seediness_copy, args.pick)] < s_threshold

\* fit_predict1 has returned (ret keeps its result); the caller calls
\* fit_predict2 with the same arrays, thresholds and kernel
PairCallFP2 ==
    /\ fn = "fit_predict1" /\ pc = "done" /\ ret = <<>>
    /\ ret' = [pred_labels |-> pred_labels, spheres |-> spheres, seeds |-> seeds]
    /\ fn' = "fit_predict2"
    /\ pc' = "loop"
    /\ pred_labels' = [j \in 1..N |-> -1]
    /\ spheres' = <<>> /\ probs' = <<>> /\ seeds' = <<>>
    /\ seediness_copy' = seediness
    /\ check_completion' = [j \in 1..N |-> 0]
    /\ c' = 0 /\ count' = 0
    /\ UNCHANGED <<embeddings, seediness, margins, s_threshold, p_threshold,
                   cluster_all, cenVars, args, locals>>

PairFP2Iterate ==
    /\ FP2Iterate
    /\ seeds'[Len(seeds')] = Pick(seediness_copy, args.pick)

PairFP2Return ==
    /\ FP2Return
    /\ ~(count < N) \/ seediness[Pick(seediness_copy, args.pick)] < s_threshold

\* fit_predict1 followed for as long as it runs.  An iteration is two steps,
\* the loop's tests (lines 128-132, locals keeps the selected i) and the rest
\* of the body (lines 133-142).  The loop's tests read check_completion,
\* seediness_copy, seediness and s_threshold only; spheres, seeds and c, which
\* grow with every iteration, are kept up to MaxIter iterations
FP1LoopTest ==
    /\ fn = "fit_predict1" /\ pc = "loop"
    /\ ~AllComplete(check_completion)
    /\ LET i == Pick(seediness_copy, args.pick)
       IN /\ ~(seediness[i] < s_threshold)
          /\ locals' = [i |-> i]
    /\ pc' = "body"
    /\ UNCHANGED <<fn, decVars, cenVars, args, ret>>

FP1Body ==
    /\ fn = "fit_predict1" /\ pc = "body"
    /\ LET i == locals.i
           pValues == PValues(i)
           cluster_index == ClusterIndex(pValues)
           kept == Len(spheres) < MaxIter
       IN /\ spheres' = IF kept
                        THEN Append(spheres, [centroid |-> embeddings[i], sigma |-> margins[i]])
                        ELSE spheres
          /\ seediness_copy' = ZeroSeediness(seediness_copy, cluster_index)
          /\ check_completion' = MarkComplete(check_completion, cluster_index)
          /\ pred_labels' = AssignLabels(pred_labels, cluster_index, c)
          /\ c' = IF kept THEN c + 1 ELSE c
          /\ seeds' = IF kept THEN Append(seeds, i) ELSE seeds
    /\ pc' = "loop"
    /\ locals' = <<>>
    /\ UNCHANGED <<fn, embeddings, seediness, margins, s_threshold, p_threshold,
                   cluster_all, probs, count, cenVars, args, ret>>

NextFP1Live == FP1LoopTest \/ FP1Body \/ PairFP1Return

\* the interpreter keeps executing a call that can take a step: a loop that
\* can iterate or exit is not suspended
SpecFP1Live == InitPair /\ [][NextFP1Live]_vars /\ WF_vars(NextFP1Live)

NextPair ==
    PairFP1Iterate \/ PairFP1Return \/ PairCallFP2 \/ PairFP2Iterate \/ PairFP2Return

SpecPair == InitPair /\ [][NextPair]_vars

\* --------------------------------------------------------- batch samplers
\* iotools/samplers.py.  The constructor's arguments are numbers in units of
\* 0.5, so that int() has something to truncate; the fields it sets
\* (self._data_size, self._batch_size: data_size and batch_size of locals) and
\* the indices the iterators yield are integers.
MaxData == 4

SamplerClasses == {"RandomSequenceSampler", "SequentialBatchSampler"}
DataSizeValues == (-2)..(2 * MaxData)
BatchSizeValues == (-2)..(2 * MaxData + 2)

\* int(x) for x = h / 2: truncation towards zero
ToInt(h) == IF h >= 0 THEN h \div 2 ELSE -((-h) \div 2)

\* the two tests of __init__ that raise ValueError, without the test of the
\* batch size against the data size
SizesRejectedNoUpper(data_size, batch_size) == data_size < 0 \/ batch_size < 0

\* the two tests of __init__ that raise ValueError, on the converted sizes
SizesRejected(data_size, batch_size) ==
    data_size < 0 \/ (batch_size < 0 \/ batch_size > data_size)

\* __len__
SamplerLen(self) == self.data_size

\* np.arange with the stop included
ArangeInclusive(start, stop) == [k \in 1..(stop - start + 1) |-> start + k - 1]

\* np.arange(start, stop): start, start + 1, ... below stop
Arange(start, stop) == [k \in 1..(stop - start) |-> start + k - 1]

\* np.arange(0, stop, step) for step > 0: 0, step, 2 * step, ... below stop
ArangeStep(stop, step) ==
    [k \in 1..(IF stop > 0 THEN (stop + step - 1) \div step ELSE 0) |-> (k - 1) * step]

\* np.concatenate of a non-empty list of arrays
RECURSIVE Concatenate(_)
Concatenate(arrays) ==
    IF Len(arrays) = 0 THEN <<>> ELSE Head(arrays) \o Concatenate(Tail(arrays))

\* np.concatenate([np.arange(start, start+self.batch_size) for start in starts])
Runs(starts, batch_size) ==
    Concatenate([k \in 1..Len(starts) |-> Arange(starts[k], starts[k] + batch_size)])

\* what randint(low=0, high=high) can draw: low included, high excluded
RandintValues(high) == 0..(high - 1)

InitSamplers ==
    /\ fn \in SamplerClasses
    /\ pc = "new"
    /\ \E d \in DataSizeValues, b \in BatchSizeValues :
          args = [data_size |-> d, batch_size |-> b]
    /\ locals = <<>> /\ ret = <<>>
    /\ DecIdle /\ CenIdle

\* AbstractBatchSampler.__init__, which both samplers inherit
SamplerInit ==
    /\ fn \in SamplerClasses /\ pc = "new"
    /\ LET data_size == ToInt(args.data_size)
           batch_size == ToInt(args.batch_size)
       IN IF SizesRejected(data_size, batch_size)
          THEN pc' = "raised" /\ ret' = "ValueError" /\ UNCHANGED locals
          ELSE /\ pc' = "ready"
               /\ locals' = [data_size |-> data_size, batch_size |-> batch_size]
               /\ UNCHANGED ret
    /\ UNCHANGED <<fn, args, decVars, cenVars>>

\* SequentialBatchSampler.__iter__: np.arange raises on a zero step and
\* np.concatenate raises on an empty list
SequentialIter ==
    /\ fn = "SequentialBatchSampler" /\ pc = "ready"
    /\ IF locals.batch_size = 0
       THEN pc' = "raised" /\ ret' = "ZeroDivisionError"
       ELSE LET starts == ArangeStep(locals.data_size - locals.batch_size,
                                     locals.batch_size)
            IN IF Len(starts) = 0
               THEN pc' = "raised" /\ ret' = "ValueError"
               ELSE /\ pc' = "done"
                    /\ ret' = [starts |-> starts,
                               indices |-> Runs(starts, locals.batch_size)]
    /\ UNCHANGED <<fn, args, locals, decVars, cenVars>>

\* RandomSequenceSampler.__iter__: randint raises unless low < high, and draws
\* len(self) starts otherwise
RandomIter ==
    /\ fn = "RandomSequenceSampler" /\ pc = "ready"
    /\ LET high == locals.data_size - locals.batch_size
       IN IF ~(0 < high)
          THEN pc' = "raised" /\ ret' = "ValueError"
          ELSE \E starts \in [1..SamplerLen(locals) -> RandintValues(high)] :
                  /\ pc' = "done"
                  /\ ret' = [starts |-> starts,
                             indices |-> Runs(starts, locals.batch_size)]
    /\ UNCHANGED <<fn, args, locals, decVars, cenVars>>

NextSamplers == SamplerInit \/ SequentialIter \/ RandomIter

SpecSamplers == InitSamplers /\ [][NextSamplers]_vars

\* --------------------------------------------------------------- properties
\* the kernel value of recorded sphere k at point j
SphereProb(k, j) == GaussianKernel(spheres[k].centroid, spheres[k].sigma, embeddings[j])

\* point j was claimed by recorded sphere k
ClaimedBy(k, j) == ExceedsP(SphereProb(k, j), p_threshold)

\* R(i,j): the kernel seeded at point i with margin i gives point j a
\* probability > p_threshold
R(i, j) == ExceedsP(GaussianKernel(embeddings[i], margins[i], embeddings[j]), p_threshold)

REquivalence ==
    /\ \A i \in 1..N : R(i, i)
    /\ \A i, j \in 1..N : R(i, j) => R(j, i)
    /\ \A i, j, k \in 1..N : (R(i, j) /\ R(j, k)) => R(i, k)

RClasses == {{j \in 1..N : R(i, j)} : i \in 1..N}

C1Pre ==
    /\ \A i \in 1..N : seediness[i] > 0 /\ seediness[i] >= s_threshold
    /\ REquivalence

\* C1: when R is an equivalence relation with k classes and every seediness is
\* positive and >= s_threshold, either decoder returns exactly k spheres and
\* gives two points the same label iff they are in the same class, whatever
\* way ties in the highest seediness are broken
C1_ClassesRecovered ==
    (fn \in {"fit_predict1", "fit_predict2"} /\ pc = "done" /\ C1Pre) =>
        /\ Len(spheres) = Cardinality(RClasses)
        /\ \A i, j \in 1..N : (pred_labels[i] = pred_labels[j]) <=> R(i, j)

\* the 4-point scenario decoded by fit_predict2 into {0,1} and {2,3}
C1_Witness ==
    /\ fn = "fit_predict2" /\ pc = "done" /\ C1Pre
    /\ embeddings = ScenarioEmbeddings /\ seediness = ScenarioSeediness
    /\ Len(spheres) = 2
    /\ pred_labels[1] = pred_labels[2] /\ pred_labels[3] = pred_labels[4]
    /\ pred_labels[1] # pred_labels[3]

\* C2: in fit_predict1 a label once given to a point is never changed by a
\* later step
C2_LabelNeverChanged ==
    [][fn = "fit_predict1" =>
        \A j \in 1..N : pred_labels[j] # -1 => pred_labels'[j] = pred_labels[j]]_vars

\* C3: when fit_predict2 has discovered k >= 1 clusters, every returned label
\* is the index in 0..k-1 of a recorded sphere whose kernel probability for
\* the point is the largest, and no label is set while the loop runs
C3_BestFitLabels ==
    /\ (fn = "fit_predict2" /\ pc = "loop") => \A j \in 1..N : pred_labels[j] = -1
    /\ (fn = "fit_predict2" /\ pc = "done" /\ Len(spheres) >= 1) =>
        \A j \in 1..N :
            /\ pred_labels[j] \in 0..(Len(spheres) - 1)
            /\ \A k \in 1..Len(spheres) :
                ~ProbGT(SphereProb(k, j), SphereProb(pred_labels[j] + 1, j))

\* fit_predict2 returned with a point that two clusters claimed, labelled with
\* the one of strictly larger probability
C3_Witness ==
    /\ fn = "fit_predict2" /\ pc = "done" /\ Len(spheres) >= 2
    /\ \E j \in 1..N : \E k \in 1..Len(spheres) :
        /\ k # pred_labels[j] + 1
        /\ ClaimedBy(k, j) /\ ClaimedBy(pred_labels[j] + 1, j)
        /\ ProbGT(SphereProb(pred_labels[j] + 1, j), SphereProb(k, j))

\* the labels other than -1 that occur in a label vector
Assigned(labs) == {labs[j] : j \in 1..Len(labs)} \ {-1}

\* C4: the labels a decoder returns are, apart from -1, exactly 0..m-1
C4_LabelsContiguous ==
    (fn \in {"fit_predict1", "fit_predict2"} /\ pc = "done") =>
        Assigned(pred_labels) = 0..(Cardinality(Assigned(pred_labels)) - 1)

\* C5: a point that an earlier recorded cluster claimed (so that its seediness
\* was zeroed) is never the seed of a later cluster
C5_ClaimedNeverSeed ==
    \A a, b \in 1..Len(seeds) : a < b => ~ClaimedBy(a, seeds[b])

\* C6: the loop of fit_predict2 performs at most N iterations
C6_AtMostNIterations ==
    fn = "fit_predict2" => Len(spheres) <= N

\* point j never exceeded p_threshold for any discovered cluster
NeverClaimed(j) == \A k \in 1..Len(spheres) : ~ClaimedBy(k, j)

\* C9 as stated: without cluster_all a never-claimed point is returned as -1 by
\* either decoder; with cluster_all and a discovered cluster no label is -1
C9_Original ==
    (fn \in {"fit_predict1", "fit_predict2"} /\ pc = "done") =>
        /\ ~cluster_all => \A j \in 1..N : NeverClaimed(j) => pred_labels[j] = -1
        /\ (cluster_all /\ Len(spheres) >= 1) => \A j \in 1..N : pred_labels[j] # -1

\* C9 amended: without cluster_all a never-claimed point is returned as -1 by
\* fit_predict1, and by fit_predict2 when it discovered no cluster; once
\* fit_predict2 has discovered a cluster it returns no -1 whatever the flag;
\* with cluster_all and a discovered cluster neither decoder returns a -1
C9_Amended ==
    (fn \in {"fit_predict1", "fit_predict2"} /\ pc = "done") =>
        /\ (~cluster_all /\ (fn = "fit_predict1" \/ Len(spheres) = 0)) =>
                \A j \in 1..N : NeverClaimed(j) => pred_labels[j] = -1
        /\ (fn = "fit_predict2" /\ Len(spheres) >= 1) =>
                \A j \in 1..N : pred_labels[j] # -1
        /\ (cluster_all /\ Len(spheres) >= 1) => \A j \in 1..N : pred_labels[j] # -1

\* fit_predict1 returned without cluster_all, leaving a never-claimed point -1
\* beside a claimed one
C9_Witness ==
    /\ fn = "fit_predict1" /\ pc = "done" /\ ~cluster_all /\ Len(spheres) >= 1
    /\ \E j \in 1..N : NeverClaimed(j) /\ pred_labels[j] = -1
    /\ \E j \in 1..N : pred_labels[j] # -1

\* the positions of a label in a label vector
Members(labs, lab) == {j \in 1..Len(labs) : labs[j] = lab}

HasUnassigned(labs) == \E j \in 1..Len(labs) : labs[j] = -1
HasAssigned(labs) == \E j \in 1..Len(labs) : labs[j] # -1

\* C7: cluster_remainder returns its input unchanged when the input has no -1
\* or only -1, and a second application changes nothing
C7_RemainderNoOp ==
    [][(fn = "cluster_remainder" /\ (~HasUnassigned(labels) \/ ~HasAssigned(labels)
                                      \/ calls >= 1))
        => labels' = labels]_vars

\* cluster_remainder was called on three points, all assigned, with labels that
\* differ, and returned them as they were
C7_Witness ==
    /\ fn = "cluster_remainder" /\ calls >= 1
    /\ Len(labels_in) = 3 /\ ~HasUnassigned(labels_in)
    /\ labels_in[1] # labels_in[2]
    /\ labels = labels_in

\* the sum over the positions in S of coordinate k of the rows of feat
RECURSIVE CoordSum(_, _, _)
CoordSum(feat, S, k) ==
    IF S = {} THEN 0
    ELSE LET j == CHOOSE x \in S : TRUE
         IN feat[j][k] + CoordSum(feat, S \ {j}, k)

\* the centroid of label lab as the claim defines it
Centroid(feat, labs, lab) ==
    [sum |-> [k \in 1..Len(feat[1]) |-> CoordSum(feat, Members(labs, lab), k)],
     cnt |-> Cardinality(Members(labs, lab))]

\* C8: given an assigned and an unassigned point, cluster_remainder gives every
\* -1 point the label of the assigned cluster of nearest centroid, and its
\* output has no -1 and no label absent from the input
C8_NearestAssignedLabel ==
    (fn = "cluster_remainder" /\ calls = 1
        /\ HasUnassigned(labels_in) /\ HasAssigned(labels_in)) =>
        /\ \A j \in 1..Len(labels) : labels[j] \in Assigned(labels_in)
        /\ \A j \in 1..Len(labels) : labels_in[j] = -1 =>
            \A lab \in Assigned(labels_in) :
                ~Nearer(features[j], Centroid(features, labels_in, lab),
                        Centroid(features, labels_in, labels[j]))

\* C10: for a non-empty input find_cluster_means returns the distinct labels
\* in ascending order and one centroid per label, row r being the mean of
\* exactly the rows labelled group_ids[r]
C10_SortedLabelsAndMeans ==
    (fn = "find_cluster_means" /\ calls = 1 /\ Len(features) > 0) =>
        /\ pc = "done"
        /\ \A r \in 1..(Len(group_ids) - 1) : group_ids[r] < group_ids[r + 1]
        /\ {group_ids[r] : r \in 1..Len(group_ids)} = {labels[j] : j \in 1..Len(labels)}
        /\ Len(cluster_means) = Len(group_ids)
        /\ \A r \in 1..Len(group_ids) :
            cluster_means[r] = Centroid(features, labels, group_ids[r])

\* find_cluster_means returned for negative, non-contiguous labels, one of
\* them carried by two different rows
C10_Witness ==
    /\ fn = "find_cluster_means" /\ pc = "done"
    /\ group_ids = <<-2, -1, 2>> \/ group_ids = <<-2, 2>>
    /\ \E r \in 1..Len(group_ids) :
        /\ cluster_means[r].cnt = 2
        /\ \E i, j \in Members(labels, group_ids[r]) : features[i] # features[j]

\* ------------------------------------------------- loss terms: properties
\* w * a for a weight w in thousandths
FracScale(w, a) == Frac(w * a.num, a.den * 1000)

\* C11: combine returns; its intra-cluster loss is the variance loss hinged at
\* intra_margin, its inter-cluster loss is the distance loss hinged at
\* 2 * inter_margin, and its total is the weighted sum of the three terms it
\* computed.
C11_CombineMarginsAndTotal ==
    (fn = "combine" /\ pc # "call" /\ Len(args.features) > 0) =>
        /\ pc = "done"
        /\ FracEq(locals.intra_loss,
                  IntraClusterLoss(args.features, args.labels, locals.c_means,
                                   Get(args.kwargs, "intra_margin", CombineIntraMargin)))
        /\ FracEq(locals.inter_loss,
                  InterClusterLoss(locals.c_means,
                                   Get(args.kwargs, "inter_margin", CombineInterMargin)))
        /\ FracEq(ret.total_loss,
                  FracAdd(FracAdd(FracScale(locals.hyper.intra_weight, locals.intra_loss),
                                  FracScale(locals.hyper.inter_weight, locals.inter_loss)),
                          FracScale(locals.hyper.reg_weight, locals.reg_loss)))

\* the sum of f over a finite set
RECURSIVE FracSumOver(_, _)
FracSumOver(f, S) ==
    IF S = {} THEN Frac(0, 1)
    ELSE LET x == CHOOSE y \in S : TRUE
         IN FracAdd(f[x], FracSumOver(f, S \ {x}))

\* max(0, 2 * margin - |c1 - c2|)^2 for two centroids sum/cnt
HingeSquared(c1, c2, margin) ==
    LET h == Clamp0(2 * margin * c1.cnt * c2.cnt
                    - Abs(c1.sum[1] * c2.cnt - c2.sum[1] * c1.cnt))
    IN Frac(h * h, c1.cnt * c1.cnt * c2.cnt * c2.cnt)

\* C13: inter_cluster_loss divides by nothing that is zero; it returns exactly
\* 0 for fewer than 2 centroids and otherwise the sum over the ordered pairs
\* (i, j), i # j, of max(0, 2 * margin - dist(i, j))^2 divided by n * (n - 1).
C13_InterLossExact ==
    (fn = "inter_cluster_loss" /\ pc = "done") =>
        LET means == args.cluster_means
            n == Len(means)
            pairs == {p \in (1..n) \X (1..n) : p[1] # p[2]}
            total == FracSumOver([p \in pairs |->
                                    HingeSquared(means[p[1]], means[p[2]], args.margin)],
                                 pairs)
        IN /\ ret.den # 0
           /\ n < 2 => ret.num = 0
           /\ n >= 2 => FracEq(ret, Frac(total.num, total.den * n * (n - 1)))

\* three centroids of which some pair is closer than 2 * margin and some pair is not
C13_Witness ==
    /\ fn = "inter_cluster_loss" /\ pc = "done"
    /\ Len(args.cluster_means) = 3
    /\ ret.num > 0
    /\ \E i, j \in 1..3 :
          i # j /\ HingeSquared(args.cluster_means[i], args.cluster_means[j],
                                args.margin).num = 0

\* C12: the multi-scale forward pass computes its layers, and the margins
\* combine uses for layer i are intra_margins[i] and inter_margins[i], the
\* configured margins divided by 2^i.
C12_LayerMarginsUsed ==
    /\ (fn = "MultiScaleLoss.forward" /\ pc # "call" /\ args.num_gpus > 0) => pc = "done"
    /\ (fn = "compute_loss_layer" /\ pc # "call" /\ Len(args.batch_idx) > 0) =>
          /\ FracEq(locals.delta_var, Frac(args.intra_margin, Pow2(args.layer)))
          /\ FracEq(locals.delta_dist, Frac(args.inter_margin, Pow2(args.layer)))

\* ---------------------------------------------- forward passes: properties
PointOf(m) == args.replicas[m[1]][m[2]]

\* C14: in DiscriminativeLoss.forward with its default configuration
\* (segmentation-contingent) and in MaskBCELoss.forward, the points any one
\* centroid is the mean of share one batch index and one semantic class.
C14_CentroidScope ==
    ((fn = "DiscriminativeLoss.forward" /\ args.seg_contingent)
        \/ fn = "MaskBCELoss.forward") =>
        \A S \in locals.centroids : \A p, q \in S :
            /\ PointOf(p).batch = PointOf(q).batch
            /\ PointOf(p).slabel = PointOf(q).slabel

\* C15: a forward pass over replicas of which one has zero points divides by
\* nothing that is zero.
C15_NoZeroDivisor ==
    ((fn = "DiscriminativeLoss.forward" \/ fn = "MaskBCELoss.forward")
        /\ \E i \in 1..Len(args.replicas) : Len(args.replicas[i]) = 0) =>
        /\ 0 \notin locals.divisors
        /\ ~(pc = "raised" /\ ret = "ZeroDivisionError")

\* ------------------------------------------------------ factories: properties
TableOf(f) ==
    CASE f = "backbone_construct" -> BackboneDict
      [] f = "cluster_model_construct" -> ClusterModelDict
      [] f = "clustering_loss_construct" -> ClusteringLossDict

\* C16: every call of a factory with a name that is no key of its table
\* raised, and every call with a key returned the implementation registered
\* under that key.
C16_FactoryLookup ==
    fn \in {"backbone_construct", "cluster_model_construct", "clustering_loss_construct"} =>
        \A k \in 1..Len(locals.log) :
            LET e == locals.log[k]
            IN IF e.name \in DOMAIN TableOf(e.fn)
               THEN e.ret = [value |-> TableOf(e.fn)[e.name]]
               ELSE e.ret = [raised |-> "Exception"]

\* a key of another factory's table was refused, and a key was answered
C16_Witness ==
    /\ fn = "clustering_loss_construct"
    /\ Len(locals.log) = 2
    /\ locals.log[1] = [fn |-> "backbone_construct", name |-> "multi",
                        ret |-> [raised |-> "Exception"]]
    /\ locals.log[2].name = "multi" /\ "value" \in DOMAIN locals.log[2].ret

\* C17: every F-score main_loop computes is a number in [0, 1], equal to
\* 2 * purity * efficiency / (purity + efficiency), and 0 when purity or
\* efficiency is 0; the division by purity + efficiency = 0 is not performed.
C17_FScoreGuarded ==
    fn = "main_loop" =>
        /\ ~(pc = "raised" /\ ret = "ZeroDivisionError")
        /\ \A k \in 1..Len(locals.output) :
              LET r == locals.output[k]
              IN /\ r.fscore.den > 0
                 /\ 0 <= r.fscore.num /\ r.fscore.num <= r.fscore.den
                 /\ r.fscore.num * ScoreDen * (r.purity + r.efficiency)
                        = 2 * r.purity * r.efficiency * r.fscore.den
                 /\ (r.purity = 0 \/ r.efficiency = 0) => r.fscore.num = 0

\* ------------------------------------------------------ collation: properties
\* the rows of the samples before sample b
RowsBefore(batch, b) == SumTo([k \in 1..Len(batch) |-> Len(batch[k].voxels)], b - 1)

\* C18: for samples (voxels, data) with d coordinate columns, the output has
\* the sum of the samples' row counts; row r of sample b is found after the
\* rows of the samples before it, holding its d coordinates, then the batch
\* position of its sample in column d (counted from 0), then its data, the
\* last of which is the last column.
C18_BatchColumn ==
    (fn = "CollateSparse" /\ pc = "done" /\ args.kind = "tuple") =>
        LET batch == args.batch
            out == ret[1]
        IN /\ Len(out) = RowsBefore(batch, Len(batch) + 1)
           /\ \A b \in 1..Len(batch) : \A r \in 1..Len(batch[b].voxels) :
                 LET row == out[RowsBefore(batch, b) + r]
                 IN /\ SubSeq(row, 1, args.d) = batch[b].voxels[r]
                    /\ row[args.d + 1] = b - 1
                    /\ SubSeq(row, args.d + 2, Len(row)) = batch[b].data[r]
                    /\ row[Len(row)] = batch[b].data[r][Len(batch[b].data[r])]

\* two samples of 3D voxels with different numbers of rows, the second with two
\* different rows
C18_Witness ==
    /\ fn = "CollateSparse" /\ pc = "done" /\ args.kind = "tuple" /\ args.d = 3
    /\ Len(args.batch) = 2
    /\ Len(args.batch[1].voxels) = 1 /\ Len(args.batch[2].voxels) = 2
    /\ args.batch[2].voxels[1] # args.batch[2].voxels[2]
    /\ ret[1][3][4] = 1

\* C19: every value a kernel returns lies in (0, 1], is 1 at the centroid, and
\* is not larger for a point farther from the centroid than for a nearer one.
C19_KernelRange ==
    (fn \in {"gaussian_kernel", "ellipsoidal_kernel"} /\ pc = "done") =>
        \A j \in 1..Len(ret) :
            /\ ret[j].d > 0 /\ ret[j].n >= 0
            /\ args.x[j] = args.centroid => ret[j].n = 0
            /\ \A k \in 1..Len(ret) :
                  SqDist(args.x[j], args.centroid) > SqDist(args.x[k], args.centroid)
                      => ~ProbGT(ret[j], ret[k])

\* C20: a loss constructor given a configuration that has the sections of the
\* losses, all of them empty, returns an object (whose hyperparameters are the
\* defaults); it does not raise.
C20_EmptyConfigConstructs ==
    (/\ fn \in {"DiscriminativeLoss", "MultiScaleLoss", "AllyEnemyLoss", "ClusteringLoss"}
                 \cup MaskClasses
     /\ pc # "call"
     /\ DOMAIN args.modules = {"clustering_loss", "discriminative_loss"}
     /\ \A s \in DOMAIN args.modules : DOMAIN args.modules[s] = {}) =>
        /\ pc = "done"
        /\ fn = "DiscriminativeLoss" =>
              /\ ret.loss_hyperparams.intra_margin = 1
              /\ ret.loss_hyperparams.inter_margin = 3
              /\ ret.loss_hyperparams.reg_weight = 1
        /\ fn \in MaskClasses => ret.embedding_weight = 10000

\* ------------------------------------------ decoders: spheres, tally, frame
\* C21: the sphere list holds one (centroid, margin) pair per iteration, the
\* k-th being the embedding and the margin of the k-th selected seed, and
\* every label is -1 or an index smaller than the number of spheres.
C21_SpheresAndLabels ==
    fn \in {"fit_predict1", "fit_predict2"} =>
        /\ Len(spheres) = Len(seeds)
        /\ \A k \in 1..Len(spheres) :
              spheres[k] = [centroid |-> embeddings[seeds[k]], sigma |-> margins[seeds[k]]]
        /\ \A j \in 1..N :
              pred_labels[j] = -1 \/ (0 <= pred_labels[j] /\ pred_labels[j] < Len(spheres))

\* a decoder returned two spheres of different seeds, a point labelled 1
C21_Witness ==
    /\ fn \in {"fit_predict1", "fit_predict2"} /\ pc = "done"
    /\ Len(spheres) = 2 /\ seeds[1] # seeds[2]
    /\ \E j \in 1..N : pred_labels[j] = 1


\* the points whose seediness has been zeroed by a recorded sphere
Peeled == {j \in 1..N : \E k \in 1..Len(spheres) : ClaimedBy(k, j)}

\* C22: in fit_predict2 the tally count equals the number of distinct points
\* zeroed so far, so when the loop exits on count >= N every point is peeled.
C22_CountIsPeeled ==
    fn = "fit_predict2" =>
        /\ count = Cardinality(Peeled)
        /\ (pc = "done" /\ count >= N) => Peeled = 1..N


\* C23: fit_predict1 runs to completion on every input: its loop eventually
\* exits, whatever the seediness values are (zero and negative ones
\* included), here with p_threshold below 1, so that a seed claims itself.
C23_FP1Terminates ==
    (fn = "fit_predict1" /\ pc = "loop" /\ p_threshold < 100) ~> (pc = "done")


\* ---------------------------------------- forward passes: replica averaging
\* the number of entries replica r contributed to the accumulated list
EntriesOf(r) == Cardinality({k \in 1..Len(locals.loss) : locals.loss[k].replica = r})

\* C24: the loss MaskBCELoss.forward reports over replicas that all hold
\* points is the simple average of the per-replica losses: an entry of replica
\* r weighs 1 / (number of replicas * number of entries of r), whatever the
\* numbers of batch elements of the replicas are.
C24_ReplicaAverage ==
    (/\ fn = "MaskBCELoss.forward" /\ pc = "done"
     /\ \A i \in 1..Len(args.replicas) : Len(args.replicas[i]) > 0
     /\ "loss" \in DOMAIN ret) =>
        \A k \in 1..Len(ret.loss.terms) :
            ret.loss.divisor = Len(args.replicas) * EntriesOf(ret.loss.terms[k].replica)


\* ------------------------------------------ the two decoders, side by side
\* fit_predict1 has returned and fit_predict2 runs, or has run, on the same
\* arrays, every seediness positive and p_threshold below 1
C25Pre ==
    /\ fn = "fit_predict2" /\ "spheres" \in DOMAIN ret
    /\ \A j \in 1..N : seediness[j] > 0
    /\ p_threshold < 100

\* point j is claimed by at most one of the spheres fit_predict1 returned
ClaimedOnce(j) ==
    Cardinality({k \in 1..Len(ret.spheres) :
        ExceedsP(GaussianKernel(ret.spheres[k].centroid, ret.spheres[k].sigma,
                                embeddings[j]), p_threshold)}) <= 1

\* C25: on the same inputs, the seediness positive and p_threshold < 1, the
\* k-th seed of fit_predict2 is the k-th seed of fit_predict1, the spheres of
\* fit_predict2 are a prefix of those of fit_predict1, and the two lists are
\* equal when no point is claimed by two clusters.
C25_SameSeedsPrefix ==
    C25Pre =>
        /\ Len(seeds) <= Len(ret.seeds)
        /\ \A k \in 1..Len(seeds) :
              seeds[k] = ret.seeds[k] /\ spheres[k] = ret.spheres[k]
        /\ (pc = "done" /\ \A j \in 1..N : ClaimedOnce(j)) => spheres = ret.spheres

\* fit_predict2 returned two of the three spheres fit_predict1 returned
C25_Witness ==
    /\ C25Pre /\ pc = "done"
    /\ Len(spheres) = 2 /\ Len(ret.spheres) = 3


\* C27: a decode call leaves the caller's embeddings, seediness and margins as
\* they were before the call; the zeroing is done on the copy only, which
\* holds 0 at the peeled points and the caller's seediness elsewhere.
C27_InputsUnchanged ==
    "pick" \in DOMAIN args =>
        /\ embeddings = args.embeddings
        /\ seediness = args.seediness
        /\ margins = args.margins
        /\ \A j \in 1..N :
              seediness_copy[j] = IF j \in Peeled THEN 0 ELSE seediness[j]

\* both decoders have returned, each having zeroed a nonzero seediness of its copy
C27_Witness ==
    /\ "pick" \in DOMAIN args /\ "seeds" \in DOMAIN ret
    /\ fn = "fit_predict2" /\ pc = "done"
    /\ \E j \in 1..N : seediness[j] # 0 /\ seediness_copy[j] = 0
    /\ Len(ret.spheres) > 0


\* -------------------------------------------- cluster_remainder: its frame
\* C26: cluster_remainder leaves every label that was assigned in its input
\* as it was; only positions that held -1 are written, in the caller's array.
C26_AssignedKept ==
    fn = "cluster_remainder" =>
        /\ Len(labels) = Len(labels_in)
        /\ \A j \in 1..Len(labels_in) : labels_in[j] # -1 => labels[j] = labels_in[j]

\* a call wrote an unassigned point next to an assigned point labelled 2,
\* whose nearest-centroid index is not 2
C26_Witness ==
    /\ fn = "cluster_remainder" /\ calls >= 1
    /\ \E j \in 1..Len(labels_in) : labels_in[j] = -1 /\ labels[j] # -1
    /\ \E j \in 1..Len(labels_in) : labels_in[j] = 2 /\ labels[j] = 2


\* ------------------------------------------------- batch samplers: properties
\* a sampler was constructed and its iterator was asked for
Iterated(class) ==
    /\ fn = class /\ pc \in {"done", "raised"}
    /\ DOMAIN locals # {}

\* C28: for 0 < batch_size <= data_size the iterator of SequentialBatchSampler
\* yields the indices of every complete batch, in increasing order and once
\* each: 0, 1, ..., floor(data_size / batch_size) * batch_size - 1.
C28_SequentialAllBatches ==
    (/\ Iterated("SequentialBatchSampler")
     /\ 0 < locals.batch_size /\ locals.batch_size <= locals.data_size) =>
        /\ pc = "done"
        /\ ret.indices =
              [k \in 1..((locals.data_size \div locals.batch_size) * locals.batch_size)
                  |-> k - 1]

\* C29: for 0 < batch_size < data_size the iterator of RandomSequenceSampler
\* yields data_size runs of batch_size consecutive increasing indices, every
\* index in [0, data_size), whatever starts are drawn.
C29_RandomRuns ==
    (/\ Iterated("RandomSequenceSampler")
     /\ 0 < locals.batch_size /\ locals.batch_size < locals.data_size) =>
        /\ pc = "done"
        /\ Len(ret.indices) = locals.data_size * locals.batch_size
        /\ \A r \in 0..(locals.data_size - 1) : \A k \in 1..locals.batch_size :
              ret.indices[r * locals.batch_size + k]
                  = ret.indices[r * locals.batch_size + 1] + (k - 1)
        /\ \A k \in 1..Len(ret.indices) :
              0 <= ret.indices[k] /\ ret.indices[k] < locals.data_size

\* 4 runs of 2 indices were drawn, with starts that differ, one of them the
\* largest start there is
C29_Witness ==
    /\ Iterated("RandomSequenceSampler") /\ pc = "done"
    /\ locals.data_size = 4 /\ locals.batch_size = 2
    /\ ret.starts[1] = 1 /\ ret.starts[2] = 0


\* the constructor has run and raised ValueError, leaving no sampler
ConstructionFailed == pc = "raised" /\ DOMAIN locals = {} /\ ret = "ValueError"

\* C30 as stated, on the numbers the constructor is given (in units of 0.5):
\* construction fails when data_size is negative or batch_size is negative
\* or larger than data_size, and a constructed sampler has
\* 0 <= batch_size <= data_size and length data_size
C30_Original ==
    (fn \in SamplerClasses /\ pc # "new") =>
        /\ (args.data_size < 0 \/ args.batch_size < 0
                \/ args.batch_size > args.data_size) => ConstructionFailed
        /\ DOMAIN locals # {} =>
              /\ 0 <= args.batch_size /\ args.batch_size <= args.data_size
              /\ 2 * SamplerLen(locals) = args.data_size

\* C30: construction fails with ValueError when int(data_size) is negative or
\* int(batch_size) is negative or larger than int(data_size); a constructed
\* sampler holds these converted sizes, 0 <= batch size <= data size, and its
\* length is int(data_size).
C30_Amended ==
    (fn \in SamplerClasses /\ pc # "new") =>
        /\ (ToInt(args.data_size) < 0 \/ ToInt(args.batch_size) < 0
                \/ ToInt(args.batch_size) > ToInt(args.data_size)) => ConstructionFailed
        /\ DOMAIN locals # {} =>
              /\ locals.data_size = ToInt(args.data_size)
              /\ locals.batch_size = ToInt(args.batch_size)
              /\ 0 <= locals.batch_size /\ locals.batch_size <= locals.data_size
              /\ SamplerLen(locals) = ToInt(args.data_size)

\* a sampler was constructed from data_size 2 and batch_size 2.5
C30_Witness ==
    /\ fn \in SamplerClasses /\ pc = "ready"
    /\ args.data_size = 4 /\ args.batch_size = 5
    /\ locals.batch_size = 2 /\ SamplerLen(locals) = 2

====
